---- MODULE Spec2Model ----
(***************************************************************************)
(* flake: run a command in parallel worker goroutines until one invocation *)
(* fails or the user interrupts.  The model follows main() and             *)
(* worker.run() of flake.go: the coordinator (main goroutine), the worker  *)
(* goroutines, the unbuffered results channel, the context, the shared id  *)
(* counter, each worker's output buffer and the scratch directories.       *)
(* Variables marked "history" record what happened; no guard reads them.   *)
(***************************************************************************)
EXTENDS Integers, Sequences, FiniteSets, TLC

\* ---- bounds of the model ----
MaxParallelism == 2     \* largest value of -p that is explored
MaxId == 2              \* invocations explored per run (cap on the id counter)

Workers == 1..MaxParallelism
Ids == 1..MaxId

\* ---- values ----
\* the error values that worker.run returns (inv is the invocation, history)
Nil == [kind |-> "nil"]

\* flake.go:142-145; state is the syscall.WaitStatus of the ended process
RunError(id, st, out) == [kind |-> "runError", inv |-> id, state |-> st, output |-> out]

\* any other error: os.Mkdir's, cmd.Start's, or ctx.Err()
OtherError(id, cause) == [kind |-> "error", inv |-> id, cause |-> cause]

\* no process has ended yet: cmd.ProcessState is nil
NoProcess == [signaled |-> FALSE, status |-> -1, signal |-> "none"]

Exited(code) == [signaled |-> FALSE, status |-> code, signal |-> ""]
Signaled(sig) == [signaled |-> TRUE, status |-> -1, signal |-> sig]

\* the ways the command can end by itself
ExitCodes == {0, 1, 3}
NaturalEnds == {Exited(c) : c \in ExitCodes} \cup {Signaled("segmentation fault")}

\* a faulty variant of Error: the signalled case is missing
ErrorStatusOnly(re) == <<"status", re.state.status>>

\* flake.go:147-153
Error(re) ==
  IF re.state.signaled
    THEN <<"got signal", re.state.signal>>
    ELSE <<"status", re.state.status>>

\* strconv.FormatInt(id, 10), as a sequence of characters
DigitChars == <<"0", "1", "2", "3", "4", "5", "6", "7", "8", "9">>

RECURSIVE FormatInt(_)
FormatInt(i) ==
  IF i < 0 THEN <<"-">> \o FormatInt(-i)
  ELSE IF i < 10 THEN <<DigitChars[i + 1]>>
  ELSE FormatInt(i \div 10) \o <<DigitChars[(i % 10) + 1]>>

\* filepath.Join of a nonempty directory and a name
Join(dir, name) == dir \o <<"/">> \o name

\* the value of the -tmpdir flag when given, and what os.MkdirTemp makes of it
TmpFlag == <<"tmp">>
MkdirTemp(dir) == Join(dir, <<"flake-">>)

VARIABLES
  cpc,          \* where main() is
  parallelism,  \* *parallelism
  nargs,        \* flag.NArg()
  tmpdir,       \* *tmpdir (<<>> is the empty string)
  ctxDone,      \* ctx is cancelled
  idCounter,    \* var id int64
  n,            \* var n int64
  err,          \* var err error of main
  sigs,         \* number of signals buffered in sigs (capacity 1)
  interrupted,  \* main left sigLoop through case <-sigs
  display,      \* the last progress line printed
  report,       \* what main logged at the end
  exitStatus,   \* <<>> while the process lives, <<code>> once it has exited
  wpc,          \* where each worker goroutine is
  wid,          \* the id local of each worker goroutine
  werr,         \* the err local of each worker goroutine
  outBuf,       \* worker.outBuf
  procState,    \* cmd.ProcessState of the worker's last command
  dirs,         \* the directories that exist under the scratch root
  claims,       \* history: how many times each id was handed out
  outcomeKind,  \* history: the kind of value worker.run returned for each id
  cancelled,    \* history: ids that the cancellation killed or kept from starting
  delivered,    \* history: how many times main received each id's outcome
  dropped,      \* history: ids whose outcome the worker gave up publishing
  wrote,        \* history: the bytes the current invocation of a worker wrote
  started       \* history: the current invocation of a worker started a process

coordVars == <<cpc, n, err, interrupted, display, report, exitStatus>>
configVars == <<parallelism, nargs, tmpdir>>
workerVars == <<wpc, wid, werr, outBuf, procState>>
historyVars == <<claims, outcomeKind, cancelled, delivered, dropped, wrote, started>>
vars == <<cpc, parallelism, nargs, tmpdir, ctxDone, idCounter, n, err, sigs,
          interrupted, display, report, exitStatus, wpc, wid, werr, outBuf,
          procState, dirs, claims, outcomeKind, cancelled, delivered, dropped, wrote, started>>

Live == {w \in Workers : w <= parallelism}

ScratchDir(id) == Join(tmpdir, FormatInt(id))

\* flake.go:33-40, before the flags are validated
Init ==
  /\ cpc = "start"
  /\ parallelism \in 0..MaxParallelism
  /\ nargs \in 0..1
  /\ tmpdir \in {<<>>, TmpFlag}
  /\ ctxDone = FALSE
  /\ idCounter = 0
  /\ n = 0
  /\ err = Nil
  /\ sigs = 0
  /\ interrupted = FALSE
  /\ display = <<>>
  /\ report = [kind |-> "none"]
  /\ exitStatus = <<>>
  /\ wpc = [w \in Workers |-> "unborn"]
  /\ wid = [w \in Workers |-> 0]
  /\ werr = [w \in Workers |-> Nil]
  /\ outBuf = [w \in Workers |-> <<>>]
  /\ procState = [w \in Workers |-> NoProcess]
  /\ dirs = {}
  /\ claims = [i \in Ids |-> 0]
  /\ outcomeKind = [i \in Ids |-> "none"]
  /\ cancelled = {}
  /\ delivered = [i \in Ids |-> 0]
  /\ dropped = {}
  /\ wrote = [w \in Workers |-> <<>>]
  /\ started = [w \in Workers |-> FALSE]

\* flake.go:62-88: one goroutine per unit of parallelism
SpawnWorkers == [w \in Workers |-> IF w <= parallelism THEN "check" ELSE "unborn"]

\* flake.go:41-100: validate the flags, make the scratch root, start the
\* workers, and enter sigLoop
Setup ==
  /\ cpc = "start"
  /\ IF parallelism < 1
       THEN /\ cpc' = "exited" /\ exitStatus' = <<1>>
            /\ UNCHANGED <<tmpdir, dirs, wpc>>
     ELSE IF nargs < 1
       THEN /\ cpc' = "exited" /\ exitStatus' = <<2>>
            /\ UNCHANGED <<tmpdir, dirs, wpc>>
     ELSE IF tmpdir # <<>>
       THEN \E ok \in BOOLEAN :
              IF ok
                THEN /\ tmpdir' = MkdirTemp(tmpdir)
                     /\ dirs' = {MkdirTemp(tmpdir)}
                     /\ wpc' = SpawnWorkers
                     /\ cpc' = "sigLoop"
                     /\ UNCHANGED exitStatus
                ELSE /\ cpc' = "exited" /\ exitStatus' = <<1>>
                     /\ UNCHANGED <<tmpdir, dirs, wpc>>
     ELSE /\ wpc' = SpawnWorkers
          /\ cpc' = "sigLoop"
          /\ UNCHANGED <<tmpdir, dirs, exitStatus>>
  /\ UNCHANGED <<parallelism, nargs, ctxDone, idCounter, n, err, sigs, interrupted,
                 display, report, wid, werr, outBuf, procState>>
  /\ UNCHANGED historyVars

\* ---- the worker goroutine, flake.go:68-87 ----

\* a return of the goroutine (flake.go:73, 81, 84) and its deferred wg.Done:
\* its locals and the worker it alone referred to are gone
GoroutineReturns(w) ==
  /\ wpc' = [wpc EXCEPT ![w] = "done"]
  /\ wid' = [wid EXCEPT ![w] = 0]
  /\ werr' = [werr EXCEPT ![w] = Nil]
  /\ outBuf' = [outBuf EXCEPT ![w] = <<>>]
  /\ procState' = [procState EXCEPT ![w] = NoProcess]
  /\ wrote' = [wrote EXCEPT ![w] = <<>>]
  /\ started' = [started EXCEPT ![w] = FALSE]

\* a faulty variant of CheckCtx: the for loop is missing, a worker that has
\* run one invocation returns
CheckCtxOnce(w) ==
  /\ wpc[w] = "check"
  /\ IF ctxDone \/ wid[w] # 0
       THEN GoroutineReturns(w)
       ELSE /\ idCounter + Cardinality({v \in Workers : wpc[v] = "claim"}) < MaxId
            /\ wpc' = [wpc EXCEPT ![w] = "claim"]
            /\ UNCHANGED <<wid, werr, outBuf, procState, wrote, started>>
  /\ UNCHANGED <<coordVars, configVars, ctxDone, idCounter, sigs, dirs>>
  /\ UNCHANGED <<claims, outcomeKind, cancelled, delivered, dropped>>

\* a faulty variant of CheckCtx: the select on ctx.Done() at the top of the
\* loop is missing
CheckCtxIgnored(w) ==
  /\ wpc[w] = "check"
  /\ idCounter + Cardinality({v \in Workers : wpc[v] = "claim"}) < MaxId
  /\ wpc' = [wpc EXCEPT ![w] = "claim"]
  /\ UNCHANGED <<wid, werr, outBuf, procState, wrote, started>>
  /\ UNCHANGED <<coordVars, configVars, ctxDone, idCounter, sigs, dirs>>
  /\ UNCHANGED <<claims, outcomeKind, cancelled, delivered, dropped>>

\* flake.go:71-75: the non-blocking check of ctx.Done() at the top of the loop.
\* The default branch is cut off once MaxId ids are spoken for.
CheckCtx(w) ==
  /\ wpc[w] = "check"
  /\ IF ctxDone
       THEN GoroutineReturns(w)
       ELSE /\ idCounter + Cardinality({v \in Workers : wpc[v] = "claim"}) < MaxId
            /\ wpc' = [wpc EXCEPT ![w] = "claim"]
            /\ UNCHANGED <<wid, werr, outBuf, procState, wrote, started>>
  /\ UNCHANGED <<coordVars, configVars, ctxDone, idCounter, sigs, dirs>>
  /\ UNCHANGED <<claims, outcomeKind, cancelled, delivered, dropped>>

\* a faulty variant of Claim: id++ without the atomic add, so that the update
\* of a worker that increments at the same time is lost
ClaimNotAtomic(w) ==
  /\ wpc[w] = "claim"
  /\ idCounter' = IF \E v \in Workers \ {w} : wpc[v] = "claim"
                    THEN idCounter
                    ELSE idCounter + 1
  /\ wid' = [wid EXCEPT ![w] = idCounter + 1]
  /\ claims' = [claims EXCEPT ![idCounter + 1] = @ + 1]
  /\ wpc' = [wpc EXCEPT ![w] = "run"]
  /\ UNCHANGED <<coordVars, configVars, ctxDone, sigs, werr, outBuf, procState, dirs>>
  /\ UNCHANGED <<outcomeKind, cancelled, delivered, dropped, wrote, started>>

\* flake.go:76: id := atomic.AddInt64(&id, 1)
Claim(w) ==
  /\ wpc[w] = "claim"
  /\ idCounter' = idCounter + 1
  /\ wid' = [wid EXCEPT ![w] = idCounter + 1]
  /\ claims' = [claims EXCEPT ![idCounter + 1] = @ + 1]
  /\ wpc' = [wpc EXCEPT ![w] = "run"]
  /\ UNCHANGED <<coordVars, configVars, ctxDone, sigs, werr, outBuf, procState, dirs>>
  /\ UNCHANGED <<outcomeKind, cancelled, delivered, dropped, wrote, started>>

\* worker.run returns e for the invocation wid[w]: flake.go:77, then the
\* goroutine stands at the select of flake.go:78
Returned(w, e) ==
  /\ werr' = [werr EXCEPT ![w] = e]
  /\ outcomeKind' = [outcomeKind EXCEPT ![wid[w]] = e.kind]
  /\ wpc' = [wpc EXCEPT ![w] = "send"]

\* a faulty variant of RunBegin: w.outBuf.Reset() is missing
RunBeginNoReset(w) ==
  /\ wpc[w] = "run"
  /\ outBuf' = outBuf
  /\ procState' = [procState EXCEPT ![w] = NoProcess]
  /\ wrote' = [wrote EXCEPT ![w] = <<>>]
  /\ \E mkdirOk \in BOOLEAN, startOk \in BOOLEAN :
       IF tmpdir # <<>> /\ ~mkdirOk
         THEN /\ Returned(w, OtherError(wid[w], "mkdir"))
              /\ started' = [started EXCEPT ![w] = FALSE]
              /\ UNCHANGED <<dirs, cancelled>>
       ELSE IF ctxDone
         THEN /\ Returned(w, OtherError(wid[w], "context canceled"))
              /\ started' = [started EXCEPT ![w] = FALSE]
              /\ cancelled' = cancelled \cup {wid[w]}
              /\ UNCHANGED dirs
       ELSE IF ~startOk
         THEN /\ Returned(w, OtherError(wid[w], "start"))
              /\ started' = [started EXCEPT ![w] = FALSE]
              /\ UNCHANGED <<dirs, cancelled>>
       ELSE /\ wpc' = [wpc EXCEPT ![w] = "running"]
            /\ dirs' = IF tmpdir # <<>> THEN dirs \cup {ScratchDir(wid[w])} ELSE dirs
            /\ started' = [started EXCEPT ![w] = TRUE]
            /\ UNCHANGED <<werr, outcomeKind, cancelled>>
  /\ UNCHANGED <<coordVars, configVars, ctxDone, idCounter, sigs, wid>>
  /\ UNCHANGED <<claims, delivered, dropped>>

\* flake.go:156-168, up to the start of the process: reset the buffer, make
\* the scratch directory, start the command.  cmd.Start fails at once when
\* ctx is already done; a failed start runs the deferred RemoveAll.
RunBegin(w) ==
  /\ wpc[w] = "run"
  /\ outBuf' = [outBuf EXCEPT ![w] = <<>>]
  /\ procState' = [procState EXCEPT ![w] = NoProcess]
  /\ wrote' = [wrote EXCEPT ![w] = <<>>]
  /\ \E mkdirOk \in BOOLEAN, startOk \in BOOLEAN :
       IF tmpdir # <<>> /\ ~mkdirOk
         THEN /\ Returned(w, OtherError(wid[w], "mkdir"))
              /\ started' = [started EXCEPT ![w] = FALSE]
              /\ UNCHANGED <<dirs, cancelled>>
       ELSE IF ctxDone
         THEN /\ Returned(w, OtherError(wid[w], "context canceled"))
              /\ started' = [started EXCEPT ![w] = FALSE]
              /\ cancelled' = cancelled \cup {wid[w]}
              /\ UNCHANGED dirs
       ELSE IF ~startOk
         THEN /\ Returned(w, OtherError(wid[w], "start"))
              /\ started' = [started EXCEPT ![w] = FALSE]
              /\ UNCHANGED <<dirs, cancelled>>
       ELSE /\ wpc' = [wpc EXCEPT ![w] = "running"]
            /\ dirs' = IF tmpdir # <<>> THEN dirs \cup {ScratchDir(wid[w])} ELSE dirs
            /\ started' = [started EXCEPT ![w] = TRUE]
            /\ UNCHANGED <<werr, outcomeKind, cancelled>>
  /\ UNCHANGED <<coordVars, configVars, ctxDone, idCounter, sigs, wid>>
  /\ UNCHANGED <<claims, delivered, dropped>>

\* what one invocation can have written to stdout and stderr, both of which
\* are w.outBuf (flake.go:158-159); a byte is tagged with its invocation
Outputs(id) == {<<>>, <<id>>}

\* what cmd.Run returns (os/exec Cmd.Wait) for a process that ended in state
\* st: an *exec.ExitError unless it exited with status 0; for status 0, ctx's
\* error when cmd.Cancel had been called before the process was reaped
CmdRun(st, cancelCalled) ==
  IF st # Exited(0) THEN "ExitError"
  ELSE IF cancelCalled THEN "context canceled"
  ELSE "nil"

\* flake.go:169-175: what worker.run makes of cmd.Run's error
RunResult(id, st, cancelCalled, buf) ==
  IF CmdRun(st, cancelCalled) = "ExitError" THEN RunError(id, st, buf)
  ELSE IF CmdRun(st, cancelCalled) = "nil" THEN Nil
  ELSE OtherError(id, CmdRun(st, cancelCalled))

\* a faulty variant of RunEnd: the deferred os.RemoveAll is missing
RunEndKeepsDir(w, st, out, cancelCalled) ==
  /\ outBuf' = [outBuf EXCEPT ![w] = @ \o out]
  /\ wrote' = [wrote EXCEPT ![w] = out]
  /\ procState' = [procState EXCEPT ![w] = st]
  /\ Returned(w, RunResult(wid[w], st, cancelCalled, outBuf[w] \o out))
  /\ cancelled' = IF cancelCalled /\ (st = Exited(0) \/ st = Signaled("killed"))
                    THEN cancelled \cup {wid[w]}
                    ELSE cancelled
  /\ dirs' = dirs

\* flake.go:168-175 and the deferred RemoveAll of flake.go:165: the process
\* wrote out and ended in state st, cmd.Run returned
RunEnd(w, st, out, cancelCalled) ==
  /\ outBuf' = [outBuf EXCEPT ![w] = @ \o out]
  /\ wrote' = [wrote EXCEPT ![w] = out]
  /\ procState' = [procState EXCEPT ![w] = st]
  /\ Returned(w, RunResult(wid[w], st, cancelCalled, outBuf[w] \o out))
  /\ cancelled' = IF cancelCalled /\ (st = Exited(0) \/ st = Signaled("killed"))
                    THEN cancelled \cup {wid[w]}
                    ELSE cancelled
  /\ dirs' = dirs \ {ScratchDir(wid[w])}

\* the command ends by itself; when ctx is done by then, cmd.Cancel may or
\* may not have been called before cmd.Run returns
RunExit(w) ==
  /\ wpc[w] = "running"
  /\ \E st \in NaturalEnds, out \in Outputs(wid[w]),
        cancelCalled \in {FALSE} \cup (IF ctxDone THEN {TRUE} ELSE {}) :
       RunEnd(w, st, out, cancelCalled)
  /\ UNCHANGED <<coordVars, configVars, ctxDone, idCounter, sigs, wid>>
  /\ UNCHANGED <<claims, delivered, dropped, started>>

\* a faulty variant of RunKilled: the command is started without the context
\* (exec.Command), so the cancellation never ends it
RunNotKilled(w) ==
  /\ wpc[w] = "running"
  /\ ctxDone
  /\ FALSE
  /\ UNCHANGED vars

\* flake_other.go:28-30: ctx is done, cmd.Cancel kills the process group
RunKilled(w) ==
  /\ wpc[w] = "running"
  /\ ctxDone
  /\ \E out \in Outputs(wid[w]) : RunEnd(w, Signaled("killed"), out, TRUE)
  /\ UNCHANGED <<coordVars, configVars, ctxDone, idCounter, sigs, wid>>
  /\ UNCHANGED <<claims, delivered, dropped, started>>

\* a faulty variant of SendCancelled: the select has a default case in place
\* of <-ctx.Done(), so an outcome main is not ready for is given up
SendOrGiveUp(w) ==
  /\ wpc[w] = "send"
  /\ GoroutineReturns(w)
  /\ dropped' = dropped \cup {wid[w]}
  /\ UNCHANGED <<coordVars, configVars, ctxDone, idCounter, sigs, dirs>>
  /\ UNCHANGED <<claims, outcomeKind, cancelled, delivered>>

\* flake.go:80-81: the send did not happen and ctx is done: return
SendCancelled(w) ==
  /\ wpc[w] = "send"
  /\ ctxDone
  /\ GoroutineReturns(w)
  /\ dropped' = dropped \cup {wid[w]}
  /\ UNCHANGED <<coordVars, configVars, ctxDone, idCounter, sigs, dirs>>
  /\ UNCHANGED <<claims, outcomeKind, cancelled, delivered>>

\* ---- main's sigLoop, flake.go:101-118 ----

\* a faulty variant of Recv: main does not leave sigLoop on a non-nil err
RecvKeepsRunning(w) ==
  /\ cpc = "sigLoop"
  /\ wpc[w] = "send"
  /\ err' = werr[w]
  /\ IF werr[w] # Nil
       THEN /\ n' = n
            /\ GoroutineReturns(w)
       ELSE /\ n' = n + 1
            /\ wpc' = [wpc EXCEPT ![w] = "check"]
            /\ UNCHANGED <<wid, werr, outBuf, procState, wrote, started>>
  /\ delivered' = [delivered EXCEPT ![wid[w]] = @ + 1]
  /\ UNCHANGED <<cpc, configVars, ctxDone, idCounter, sigs, interrupted, display, report,
                 exitStatus, dirs>>
  /\ UNCHANGED <<claims, outcomeKind, cancelled, dropped>>

\* a faulty variant of Recv: n++ comes before the test of err, so the failure
\* is counted as an iteration
RecvCountsFailure(w) ==
  /\ cpc = "sigLoop"
  /\ wpc[w] = "send"
  /\ err' = werr[w]
  /\ n' = n + 1
  /\ IF werr[w] # Nil
       THEN /\ cpc' = "cancel"
            /\ GoroutineReturns(w)
       ELSE /\ cpc' = cpc
            /\ wpc' = [wpc EXCEPT ![w] = "check"]
            /\ UNCHANGED <<wid, werr, outBuf, procState, wrote, started>>
  /\ delivered' = [delivered EXCEPT ![wid[w]] = @ + 1]
  /\ UNCHANGED <<configVars, ctxDone, idCounter, sigs, interrupted, display, report,
                 exitStatus, dirs>>
  /\ UNCHANGED <<claims, outcomeKind, cancelled, dropped>>

\* a faulty variant of Recv: the worker's "if err != nil { return }" is
\* missing, it goes round its loop after any outcome
RecvWorkerContinues(w) ==
  /\ cpc = "sigLoop"
  /\ wpc[w] = "send"
  /\ err' = werr[w]
  /\ IF werr[w] # Nil
       THEN cpc' = "cancel" /\ n' = n
       ELSE cpc' = cpc /\ n' = n + 1
  /\ wpc' = [wpc EXCEPT ![w] = "check"]
  /\ UNCHANGED <<wid, werr, outBuf, procState, wrote, started>>
  /\ delivered' = [delivered EXCEPT ![wid[w]] = @ + 1]
  /\ UNCHANGED <<configVars, ctxDone, idCounter, sigs, interrupted, display, report,
                 exitStatus, dirs>>
  /\ UNCHANGED <<claims, outcomeKind, cancelled, dropped>>

\* flake.go:79 meets flake.go:104-108: worker w hands its err to main over
\* the unbuffered channel; then flake.go:83-85 in the worker
Recv(w) ==
  /\ cpc = "sigLoop"
  /\ wpc[w] = "send"
  /\ err' = werr[w]
  /\ IF werr[w] # Nil
       THEN /\ cpc' = "cancel"
            /\ n' = n
            /\ GoroutineReturns(w)
       ELSE /\ cpc' = cpc
            /\ n' = n + 1
            /\ wpc' = [wpc EXCEPT ![w] = "check"]
            /\ UNCHANGED <<wid, werr, outBuf, procState, wrote, started>>
  /\ delivered' = [delivered EXCEPT ![wid[w]] = @ + 1]
  /\ UNCHANGED <<configVars, ctxDone, idCounter, sigs, interrupted, display, report,
                 exitStatus, dirs>>
  /\ UNCHANGED <<claims, outcomeKind, cancelled, dropped>>

\* a faulty variant of Tick: the ticker case ends the loop after printing
TickBreaks ==
  /\ cpc = "sigLoop"
  /\ display' = <<n, "iterations">>
  /\ cpc' = "cancel"
  /\ UNCHANGED <<n, err, interrupted, report, exitStatus>>
  /\ UNCHANGED <<configVars, ctxDone, idCounter, sigs, workerVars, dirs>>
  /\ UNCHANGED historyVars

\* flake.go:109-114: print the progress line
Tick ==
  /\ cpc = "sigLoop"
  /\ display' = <<n, "iterations">>
  /\ UNCHANGED <<cpc, n, err, interrupted, report, exitStatus>>
  /\ UNCHANGED <<configVars, ctxDone, idCounter, sigs, workerVars, dirs>>
  /\ UNCHANGED historyVars

\* SIGINT or SIGTERM arrives; signal.Notify drops it when the buffer is full.
\* A signal that arrives after sigLoop is never read and is left out.
Signal ==
  /\ cpc = "sigLoop"
  /\ sigs' = 1
  /\ UNCHANGED <<coordVars, configVars, ctxDone, idCounter, workerVars, dirs>>
  /\ UNCHANGED historyVars

\* a faulty variant of RecvSig: a plain break, which leaves the select and not
\* the loop
RecvSigNoBreak ==
  /\ cpc = "sigLoop"
  /\ sigs = 1
  /\ sigs' = 0
  /\ interrupted' = TRUE
  /\ cpc' = "sigLoop"
  /\ UNCHANGED <<n, err, display, report, exitStatus>>
  /\ UNCHANGED <<configVars, ctxDone, idCounter, workerVars, dirs>>
  /\ UNCHANGED historyVars

\* flake.go:115-116
RecvSig ==
  /\ cpc = "sigLoop"
  /\ sigs = 1
  /\ sigs' = 0
  /\ interrupted' = TRUE
  /\ cpc' = "cancel"
  /\ UNCHANGED <<n, err, display, report, exitStatus>>
  /\ UNCHANGED <<configVars, ctxDone, idCounter, workerVars, dirs>>
  /\ UNCHANGED historyVars

\* ---- after sigLoop, flake.go:119-134 ----

\* a faulty variant of Cancel: cancel() is never called
CancelForgotten ==
  /\ cpc = "cancel"
  /\ ctxDone' = ctxDone
  /\ cpc' = "wait"
  /\ UNCHANGED <<n, err, interrupted, display, report, exitStatus>>
  /\ UNCHANGED <<configVars, idCounter, sigs, workerVars, dirs>>
  /\ UNCHANGED historyVars

\* flake.go:119
Cancel ==
  /\ cpc = "cancel"
  /\ ctxDone' = TRUE
  /\ cpc' = "wait"
  /\ UNCHANGED <<n, err, interrupted, display, report, exitStatus>>
  /\ UNCHANGED <<configVars, idCounter, sigs, workerVars, dirs>>
  /\ UNCHANGED historyVars

\* a faulty variant of Wait: main does not wait for the goroutines
WaitNoJoin ==
  /\ cpc = "wait"
  /\ cpc' = "report"
  /\ UNCHANGED <<n, err, interrupted, display, report, exitStatus>>
  /\ UNCHANGED <<configVars, ctxDone, idCounter, sigs, workerVars, dirs>>
  /\ UNCHANGED historyVars

\* flake.go:120: wg.Wait() returns when every goroutine has run wg.Done
Wait ==
  /\ cpc = "wait"
  /\ \A w \in Live : wpc[w] = "done"
  /\ cpc' = "report"
  /\ UNCHANGED <<n, err, interrupted, display, report, exitStatus>>
  /\ UNCHANGED <<configVars, ctxDone, idCounter, sigs, workerVars, dirs>>
  /\ UNCHANGED historyVars

\* a faulty variant of Report: the failed run is counted among the
\* iterations that are reported
ReportCountsFailure ==
  /\ cpc = "report"
  /\ report' = IF err = Nil
                 THEN [kind |-> "quit", n |-> n]
               ELSE IF err.kind = "runError"
                 THEN [kind |-> "failed", n |-> n + 1, desc |-> Error(err), output |-> err.output]
               ELSE [kind |-> "error", n |-> n + 1, cause |-> err.cause]
  /\ cpc' = "return"
  /\ UNCHANGED <<n, err, interrupted, display, exitStatus>>
  /\ UNCHANGED <<configVars, ctxDone, idCounter, sigs, workerVars, dirs>>
  /\ UNCHANGED historyVars

\* flake.go:124-133: what is logged
Report ==
  /\ cpc = "report"
  /\ report' = IF err = Nil
                 THEN [kind |-> "quit", n |-> n]
               ELSE IF err.kind = "runError"
                 THEN [kind |-> "failed", n |-> n, desc |-> Error(err), output |-> err.output]
               ELSE [kind |-> "error", n |-> n, cause |-> err.cause]
  /\ cpc' = "return"
  /\ UNCHANGED <<n, err, interrupted, display, exitStatus>>
  /\ UNCHANGED <<configVars, ctxDone, idCounter, sigs, workerVars, dirs>>
  /\ UNCHANGED historyVars

\* flake.go:126 and 134: main returns, the deferred RemoveAll of flake.go:55
\* removes the scratch root, and the process exits with status 0
Return ==
  /\ cpc = "return"
  /\ dirs' = {}
  /\ exitStatus' = <<0>>
  /\ cpc' = "exited"
  /\ UNCHANGED <<n, err, interrupted, display, report>>
  /\ UNCHANGED <<configVars, ctxDone, idCounter, sigs, workerVars>>
  /\ UNCHANGED historyVars

Next ==
  \/ Setup
  \/ \E w \in Workers : CheckCtx(w)
  \/ \E w \in Workers : Claim(w)
  \/ \E w \in Workers : RunBegin(w)
  \/ \E w \in Workers : RunExit(w)
  \/ \E w \in Workers : RunKilled(w)
  \/ \E w \in Workers : SendCancelled(w)
  \/ \E w \in Workers : Recv(w)
  \/ Tick
  \/ Signal
  \/ RecvSig
  \/ Cancel
  \/ Wait
  \/ Report
  \/ Return

Spec == Init /\ [][Next]_vars

\* The steps the Go scheduler is bound to take: a runnable goroutine runs, a
\* select with a ready case proceeds, a killed process ends.  The command
\* ending by itself, its writes, the ticker and the signals are not.
WorkerFair(w) ==
  \/ CheckCtx(w)
  \/ Claim(w)
  \/ RunBegin(w)
  \/ RunKilled(w)
  \/ SendCancelled(w)
  \/ Recv(w)

CoordFair == Setup \/ RecvSig \/ Cancel \/ Wait \/ Report \/ Return

FairSpec ==
  /\ Init
  /\ [][Next]_vars
  /\ WF_vars(CoordFair)
  /\ \A w \in Workers : WF_vars(WorkerFair(w))

\* ---- properties ----

AllWorkersDone == \A w \in Live : wpc[w] = "done"
JoinReturned == cpc \in {"report", "return", "exited"}

\* C1: shutdown never deadlocks: once main has raised the cancellation, every
\* worker goroutine eventually returns and wg.Wait returns, whether the worker
\* was blocked sending on results or its subprocess was still running.
ShutdownNeverDeadlocks == ctxDone ~> (AllWorkersDone /\ JoinReturned)

\* a join that returned after one worker gave up a send of a success and
\* another worker's subprocess was killed
ShutdownWitness ==
  /\ cpc = "report"
  /\ \E i \in dropped : outcomeKind[i] = "nil"
  /\ \E i \in dropped \cap cancelled : outcomeKind[i] = "runError"

\* C2 as stated: in a complete run every invocation's outcome was received by
\* main exactly once (as many outcomes received as invocations started).
EveryOutcomeDelivered ==
  cpc = "exited" => \A i \in Ids : claims[i] >= 1 => delivered[i] = 1

\* C2, amended: no outcome is received twice, none is received without its
\* invocation, none is given up while main is still in sigLoop's reach (before
\* the cancellation), and in a complete run every invocation's outcome was
\* either received once or given up by its worker after the cancellation.
OutcomeDeliveredAtMostOnce ==
  /\ \A i \in Ids : delivered[i] <= 1 /\ delivered[i] <= claims[i]
  /\ \A i \in dropped : delivered[i] = 0 /\ claims[i] >= 1
  /\ dropped # {} => ctxDone
  /\ cpc = "exited" => \A i \in Ids : claims[i] >= 1 => (delivered[i] = 1 \/ i \in dropped)

\* a complete run in which one outcome was received and another given up
OutcomeDroppedWitness ==
  /\ cpc = "exited"
  /\ \E i \in Ids : delivered[i] = 1
  /\ dropped # {}

\* C3 as stated: a run that ends with a Failure or a SpawnError exits with a
\* nonzero status, and status 0 is only produced after an interrupt with no
\* failure observed.
NonzeroExitOnFailure ==
  cpc = "exited" =>
    /\ report.kind \in {"failed", "error"} => exitStatus # <<0>>
    /\ exitStatus = <<0>> => (interrupted /\ err = Nil)

\* the command itself failed on invocation k and on no other: every other
\* invocation that came to an end succeeded or was ended by the cancellation
OnlyFailure(k) ==
  /\ outcomeKind[k] = "runError"
  /\ k \notin cancelled
  /\ \A i \in Ids \ {k} : outcomeKind[i] \in {"none", "nil"} \/ i \in cancelled

\* C4 as stated: when the command fails exactly on the invocation with id k and
\* no interrupt arrives, the run reports that failure and a success count of
\* at most k-1.
SuccessCountBelowFailingId ==
  (cpc = "exited" /\ ~interrupted) =>
    \A k \in Ids : OnlyFailure(k) =>
      /\ report.kind = "failed"
      /\ err.inv = k
      /\ report.n <= k - 1

\* C4, amended: under the same hypothesis the run reports the failure of
\* invocation k, and the success count is at most the number of ids handed out
\* less one; it is exactly k-1 when parallelism is 1.
SuccessCountBelowClaimed ==
  (cpc = "exited" /\ ~interrupted) =>
    \A k \in Ids : OnlyFailure(k) =>
      /\ report.kind = "failed"
      /\ err.inv = k
      /\ report.n <= idCounter - 1
      /\ parallelism = 1 => report.n = k - 1

\* a run that reported the failure of invocation 1 after counting a success
\* of a later invocation
SuccessAfterFailingIdWitness ==
  /\ cpc = "exited"
  /\ ~interrupted
  /\ OnlyFailure(1)
  /\ report.kind = "failed"
  /\ report.n >= 1

\* an invocation ended as a Failure, or as a SpawnError, by itself
FailedByItself(i) == outcomeKind[i] = "runError" /\ i \notin cancelled
SpawnErrorByItself(i) == outcomeKind[i] = "error" /\ i \notin cancelled

\* a worker holds a non-nil outcome that it has not handed over yet
FailurePending == \E w \in Live : wpc[w] = "send" /\ werr[w] # Nil

\* C5 as stated: if some invocation fails and no interrupt arrives, the run
\* ends in Reporting with a Failure as terminal condition.
FailureIsTerminalCondition ==
  (cpc = "exited" /\ ~interrupted /\ \E i \in Ids : FailedByItself(i)) =>
    report.kind = "failed"

\* C5, amended: once a worker holds a non-Success outcome, main eventually
\* leaves sigLoop, every worker stops and main reports and exits, with a
\* non-Success outcome as terminal condition unless an interrupt came first;
\* the terminal condition is a Failure unless some invocation ended in a
\* SpawnError.
StopOnFirstFailure ==
  /\ FailurePending ~>
       (cpc = "exited" /\ AllWorkersDone /\ (report.kind \in {"failed", "error"} \/ interrupted))
  /\ []((cpc = "exited" /\ ~interrupted
           /\ (\E i \in Ids : FailedByItself(i))
           /\ ~(\E i \in Ids : SpawnErrorByItself(i)))
          => report.kind = "failed")

\* a run that counted a success, then met a failure and reported it
StopOnFirstFailureWitness ==
  /\ cpc = "exited"
  /\ ~interrupted
  /\ report.kind = "failed"
  /\ report.n >= 1
  /\ AllWorkersDone

\* C6: the output a Failure carries is exactly what its own invocation wrote:
\* no byte of an earlier invocation of the same worker or of another worker's
\* invocation, in the worker, in main's err and in the report.
OutputCaptureIsolation ==
  /\ \A w \in Live : werr[w].kind = "runError" =>
       /\ werr[w].inv = wid[w]
       /\ werr[w].output = wrote[w]
  /\ \A w \in Live : wpc[w] = "send" => outBuf[w] = wrote[w]
  /\ err.kind = "runError" =>
       \A j \in 1..Len(err.output) : err.output[j] = err.inv
  /\ report.kind = "failed" => report.output = err.output

\* with one worker: invocation 1 succeeded, invocation 2 wrote a byte and
\* failed, and main holds that failure
OutputCaptureWitness ==
  /\ parallelism = 1
  /\ n = 1
  /\ err.kind = "runError"
  /\ err.inv = 2
  /\ err.output = <<2>>

\* C7: no sequence id is handed out twice, the workers that hold an id hold
\* different ones, and different ids give different scratch directories.
SequenceIdsUnique ==
  /\ \A i \in Ids : claims[i] = IF i <= idCounter THEN 1 ELSE 0
  /\ \A v, w \in Live : (v # w /\ wid[v] # 0 /\ wid[w] # 0) => wid[v] # wid[w]
  /\ \A i, j \in 1..idCounter : i # j => ScratchDir(i) # ScratchDir(j)

\* two workers run their commands at the same time
SequenceIdsWitness ==
  /\ \E v, w \in Live : v # w /\ wpc[v] = "running" /\ wpc[w] = "running"
  /\ idCounter >= 2

\* C8: with a scratch root, the directory named by an invocation's id exists
\* as long as its subprocess runs and does not exist once worker.run has
\* returned, however the invocation ended; when os.Mkdir fails the invocation
\* yields that error and no subprocess is started.  Without a scratch root no
\* directory is made.
ScratchDirLifecycle ==
  cpc # "start" =>
    /\ tmpdir = <<>> => dirs = {}
    /\ tmpdir # <<>> =>
         /\ \A w \in Live : wpc[w] = "running" => ScratchDir(wid[w]) \in dirs
         /\ \A i \in Ids : ScratchDir(i) \in dirs =>
              \E w \in Live : wpc[w] = "running" /\ wid[w] = i
    /\ \A w \in Live :
         (wpc[w] = "send" /\ werr[w].kind = "error" /\ werr[w].cause = "mkdir") => ~started[w]
    /\ \A w \in Live :
         (wpc[w] = "send" /\ werr[w].kind \in {"nil", "runError"}) => started[w]

\* with a scratch root: worker.run has returned for a subprocess that was
\* killed in mid-flight, its directory is gone, and another worker's
\* subprocess still runs in its own directory
ScratchDirWitness ==
  /\ tmpdir # <<>>
  /\ \E w \in Live :
       /\ wpc[w] = "send"
       /\ werr[w].kind = "runError"
       /\ werr[w].state = Signaled("killed")
       /\ ScratchDir(wid[w]) \notin dirs
  /\ \E w \in Live : wpc[w] = "running" /\ ScratchDir(wid[w]) \in dirs

\* every invocation that has come to an end started and exited with status 0
EveryInvocationSucceeded == \A i \in Ids : outcomeKind[i] \in {"none", "nil"}

\* C9: with a command whose every invocation starts and exits 0, and as long
\* as main has not received an interrupt, main stays in sigLoop, the
\* cancellation is not raised and no worker goroutine has returned.
RunsUntilInterrupt ==
  (cpc \notin {"start", "exited"} /\ EveryInvocationSucceeded /\ ~interrupted) =>
    /\ cpc = "sigLoop"
    /\ ~ctxDone
    /\ \A w \in Live : wpc[w] \notin {"done", "unborn"}

\* two successes counted, a signal is buffered but not yet received, and main
\* is still in sigLoop
RunsUntilInterruptWitness ==
  /\ cpc = "sigLoop"
  /\ EveryInvocationSucceeded
  /\ ~interrupted
  /\ sigs = 1
  /\ n >= 2

\* the number of successes main has received from results
RECURSIVE SuccessesReceived(_)
SuccessesReceived(i) ==
  IF i = 0 THEN 0
  ELSE SuccessesReceived(i - 1) + (IF outcomeKind[i] = "nil" THEN delivered[i] ELSE 0)

\* C10: n starts at 0, equals the number of Success outcomes main has received
\* (a received Failure or SpawnError does not count), never exceeds the
\* number of invocations that ended successfully, and is the count reported.
SuccessCountExact ==
  /\ cpc = "start" => n = 0
  /\ n = SuccessesReceived(MaxId)
  /\ n <= Cardinality({i \in Ids : outcomeKind[i] = "nil"})
  /\ report.kind # "none" => report.n = n

\* a run that received a success and then a failure and reported one success
SuccessCountWitness ==
  /\ report.kind = "failed"
  /\ report.n = 1
  /\ \E i \in Ids : delivered[i] = 1 /\ outcomeKind[i] = "runError"
  /\ \E i \in Ids : delivered[i] = 1 /\ outcomeKind[i] = "nil"

\* the command succeeded on the invocations before k and failed on invocation k
FailsOnKth(k) ==
  /\ \A i \in 1..(k - 1) : outcomeKind[i] = "nil"
  /\ outcomeKind[k] = "runError"

\* C11: with parallelism 1 and no interrupt, when the command succeeds k-1
\* times and fails on the k-th invocation, main holds the k-th invocation's
\* runError, and the report gives k-1 successful iterations and that
\* failure's description and output; an exit with status 3 reads "status 3".
SequentialFailureReport ==
  (parallelism = 1 /\ ~interrupted /\ cpc \in {"return", "exited"}) =>
    \A k \in Ids : FailsOnKth(k) =>
      /\ err.kind = "runError"
      /\ err.inv = k
      /\ \A i \in 1..(k - 1) : delivered[i] = 1
      /\ report = [kind |-> "failed", n |-> k - 1, desc |-> Error(err),
                   output |-> err.output]
      /\ err.state = Exited(3) => report.desc = <<"status", 3>>

\* one worker: invocation 1 succeeded, invocation 2 exited with status 3, and
\* the report says one successful iteration and "status 3"
SequentialFailureWitness ==
  /\ parallelism = 1
  /\ ~interrupted
  /\ cpc = "exited"
  /\ FailsOnKth(2)
  /\ report.kind = "failed"
  /\ report.n = 1
  /\ report.desc = <<"status", 3>>

\* no invocation that came to an end succeeded or failed to start: each one
\* ended as a Failure, or was ended by the cancellation
EveryInvocationFails ==
  \A i \in Ids : outcomeKind[i] \in {"none", "runError"} \/ i \in cancelled

\* C12: with a command whose every invocation fails and no interrupt, for
\* every parallelism: once a worker holds a failure the run comes to its end,
\* and a run that ended reports a Failure after 0 successful iterations and
\* received exactly one outcome, however many workers held a failure.
AlwaysFailingRun ==
  /\ (FailurePending /\ EveryInvocationFails)
       ~> (cpc = "exited" /\ (interrupted \/ ~EveryInvocationFails \/ report.kind = "failed"))
  /\ []((cpc \in {"return", "exited"} /\ ~interrupted /\ EveryInvocationFails
           /\ idCounter >= 1) =>
          /\ report.kind = "failed"
          /\ report.n = 0
          /\ n = 0
          /\ Cardinality({i \in Ids : delivered[i] = 1}) = 1)

\* two workers both had a failure of their own ready; one was received and
\* reported, the other was given up
AlwaysFailingWitness ==
  /\ cpc = "exited"
  /\ ~interrupted
  /\ parallelism = 2
  /\ EveryInvocationFails
  /\ report.kind = "failed"
  /\ report.n = 0
  /\ \E i \in Ids : delivered[i] = 1 /\ outcomeKind[i] = "runError"
  /\ \E i \in dropped : outcomeKind[i] = "runError" /\ i \notin cancelled

\* C13: when main leaves sigLoop by an interrupt, err is nil, the report is
\* "Quit after n iteration(s)", the exit status is 0, and n is the number of
\* successes received before the interrupt: from the interrupt on nothing is
\* received, so an invocation in flight and an outcome that was ready but not
\* handed over, successful or failing, are neither counted nor reported.
InterruptQuitsClean ==
  /\ [](interrupted =>
          /\ err = Nil
          /\ cpc # "sigLoop"
          /\ n = SuccessesReceived(MaxId)
          /\ report.kind # "none" => report = [kind |-> "quit", n |-> n]
          /\ cpc = "exited" => exitStatus = <<0>>)
  /\ [][interrupted' => (n' = n /\ err' = err /\ delivered' = delivered)]_vars
  /\ [](\A i \in dropped : delivered[i] = 0)

\* an interrupted run that counted one success, gave up a failure that was
\* ready when the interrupt came, and quit with status 0
InterruptQuitsWitness ==
  /\ cpc = "exited"
  /\ interrupted
  /\ report = [kind |-> "quit", n |-> 1]
  /\ exitStatus = <<0>>
  /\ \E i \in dropped : outcomeKind[i] = "runError" /\ i \notin cancelled

\* C14: the cancellation is not raised until main calls cancel(), is raised
\* by that call only, stays raised from then on (nothing takes it back and no
\* later step changes it), and it is this one signal that every worker acts
\* on: a worker returns at its check or gives up a send only when it is
\* raised, and goes on to claim an id only when it is not.
CancellationMonotonic ==
  /\ [](cpc \in {"start", "sigLoop", "cancel"} => ~ctxDone)
  /\ [](cpc \in {"wait", "report", "return"} => ctxDone)
  /\ [][ctxDone => ctxDone']_vars
  /\ [][ctxDone' # ctxDone => (cpc = "cancel" /\ cpc' = "wait")]_vars
  /\ [][\A w \in Workers :
          /\ (wpc[w] = "check" /\ wpc'[w] = "done") => ctxDone
          /\ (wpc[w] = "check" /\ wpc'[w] = "claim") => ~ctxDone]_vars
  /\ [][dropped' # dropped => ctxDone]_vars

\* the cancellation is raised and two workers have acted on it: one returned,
\* the other gave up its send
CancellationWitness ==
  /\ ctxDone
  /\ cpc = "wait"
  /\ parallelism = 2
  /\ \A w \in Live : wpc[w] = "done"
  /\ dropped # {}
  /\ idCounter = 1

\* no subprocess runs and no invocation's scratch directory exists
NothingLeftRunning ==
  /\ \A w \in Live : wpc[w] # "running"
  /\ \A i \in Ids : ScratchDir(i) \notin dirs

\* C15: main raises the cancellation before it waits in wg.Wait, and comes to
\* the report only from wg.Wait, with the cancellation raised and every
\* worker goroutine returned; while it reports and until it exits no worker
\* runs, no subprocess is waited on and no invocation's scratch directory
\* is left.
DrainingOrder ==
  /\ [](cpc = "wait" => ctxDone)
  /\ []((cpc \in {"report", "return"} \/ report.kind # "none") =>
          (ctxDone /\ AllWorkersDone /\ NothingLeftRunning))
  /\ [][(cpc' = "report" /\ cpc # "report") =>
          (cpc = "wait" /\ ctxDone /\ AllWorkersDone)]_vars
  /\ [][(cpc' = "wait" /\ cpc # "wait") => (cpc = "cancel" /\ ctxDone')]_vars

\* with a scratch root and two workers: main is about to report after a
\* subprocess was killed in mid-flight, and only the scratch root is left
DrainingWitness ==
  /\ cpc = "report"
  /\ parallelism = 2
  /\ tmpdir # <<>>
  /\ dirs = {tmpdir}
  /\ \E i \in dropped \cap cancelled : outcomeKind[i] = "runError"

\* the outcomes main has received that are not a Success
NonSuccessReceived == {i \in Ids : delivered[i] >= 1 /\ outcomeKind[i] # "nil"}

\* C16: main leaves sigLoop on the first non-nil outcome or the first signal
\* it receives, whichever comes first, and for no other reason; from then on
\* it receives nothing, so n, err and the interrupt flag do not change until
\* the report; at most one outcome that is not a Success is ever received.
FirstTerminalEventWins ==
  /\ [](cpc = "sigLoop" => (err = Nil /\ ~interrupted))
  /\ [](cpc \in {"cancel", "wait", "report", "return"} => (err # Nil) # interrupted)
  /\ [][(cpc = "sigLoop" /\ cpc' # "sigLoop") =>
          (cpc' = "cancel" /\ ((err' # Nil) # interrupted'))]_vars
  /\ [][cpc \notin {"start", "sigLoop"} =>
          (n' = n /\ err' = err /\ interrupted' = interrupted /\ delivered' = delivered)]_vars
  /\ [](Cardinality(NonSuccessReceived) <= 1)
  /\ [](report.kind # "none" => (report.n = n /\ (report.kind = "quit") = (err = Nil)))

\* main reports a failure it received while a signal was waiting in sigs and
\* another worker held a failure of its own, which was never received
FirstTerminalEventWitness ==
  /\ cpc = "return"
  /\ report.kind = "failed"
  /\ sigs = 1
  /\ \E i \in dropped : outcomeKind[i] = "runError" /\ i \notin cancelled

\* C17: a worker that holds an outcome that is not a Success does nothing
\* but hand it over, or give it up once the cancellation is raised, and then
\* returns: it claims no further id and starts no further invocation, and a
\* goroutine that returned stays so.
FailedWorkerStops ==
  /\ [][\A w \in Workers : (wpc[w] = "send" /\ werr[w] # Nil) =>
          \/ wpc'[w] = "send" /\ wid'[w] = wid[w] /\ werr'[w] = werr[w]
          \/ /\ wpc'[w] = "done"
             /\ \/ delivered'[wid[w]] = delivered[wid[w]] + 1
                \/ ctxDone /\ wid[w] \in dropped']_vars
  /\ [][\A w \in Workers : wpc[w] = "done" => wpc'[w] = "done"]_vars
  /\ [](\A w \in Live : (wpc[w] \in {"claim", "run", "running"}) => werr[w] = Nil)

\* one worker returned after handing over its failure, the other after
\* giving up its own when the cancellation was raised
FailedWorkerWitness ==
  /\ parallelism = 2
  /\ \A w \in Live : wpc[w] = "done"
  /\ \E i \in Ids : delivered[i] = 1 /\ outcomeKind[i] = "runError"
  /\ \E i \in dropped : outcomeKind[i] = "error" /\ i \notin cancelled

\* C19: a tick only prints the progress line: the step that changes the
\* display is taken in sigLoop and leaves main in sigLoop, shows the current
\* n, and changes neither n, err, the cancellation, the id counter, the
\* pending signal nor anything of any worker.
TickOnlyRefreshesDisplay ==
  [][display' # display =>
       /\ cpc = "sigLoop" /\ cpc' = "sigLoop"
       /\ display' = <<n, "iterations">>
       /\ UNCHANGED <<n, err, interrupted, report, exitStatus>>
       /\ UNCHANGED <<ctxDone, idCounter, sigs, dirs>>
       /\ UNCHANGED workerVars]_vars

\* a tick printed "1 iterations", and main went on to count a second success
TickWitness ==
  /\ cpc = "sigLoop"
  /\ display = <<1, "iterations">>
  /\ n = 2
  /\ ~ctxDone

\* the ids handed out and those that workers past their check are about to take
IdsSpokenFor == idCounter + Cardinality({w \in Workers : wpc[w] = "claim"})

\* C20: once the cancellation is raised no worker passes its check any more,
\* so only the workers that had passed it before take one more id each: the
\* ids handed out plus the workers about to take one stay constant, and the
\* counter grows by at most parallelism; a subprocess that runs while the
\* cancellation is raised is ended (killed, unless it ends by itself first)
\* and not waited for.
BoundedClaimsAfterCancel ==
  /\ [][ctxDone => (\A w \in Workers : ~(wpc[w] = "check" /\ wpc'[w] = "claim"))]_vars
  /\ [][ctxDone => (IdsSpokenFor' = IdsSpokenFor /\ idCounter' <= idCounter + 1)]_vars
  /\ [](IdsSpokenFor - idCounter <= parallelism)
  /\ \A w \in Workers : (ctxDone /\ wpc[w] = "running") ~> (wpc[w] # "running")

\* the cancellation is raised while one worker is past its check and about to
\* take an id and the other worker's subprocess runs
BoundedClaimsWitness ==
  /\ ctxDone
  /\ \E w \in Live : wpc[w] = "claim"
  /\ \E w \in Live : wpc[w] = "running"

\* what worker.run returned for the invocation worker w holds, set against
\* how its subprocess ended; okAfterCancel says whether an exit with status 0
\* may come with the context's error
Classified(w, okAfterCancel) ==
  /\ procState[w] = Exited(0) =>
       \/ werr[w] = Nil
       \/ okAfterCancel /\ ctxDone /\ werr[w] = OtherError(wid[w], "context canceled")
  /\ \A c \in ExitCodes \ {0} : procState[w] = Exited(c) =>
       /\ werr[w] = RunError(wid[w], Exited(c), wrote[w])
       /\ Error(werr[w]) = <<"status", c>>
  /\ procState[w].signaled =>
       /\ werr[w] = RunError(wid[w], procState[w], wrote[w])
       /\ Error(werr[w]) = <<"got signal", procState[w].signal>>
  /\ procState[w] = NoProcess =>
       /\ werr[w].kind = "error"
       /\ werr[w].cause \in {"mkdir", "start", "context canceled"}
       /\ werr[w].cause = "mkdir" => ~started[w]
       /\ outBuf[w] = <<>>
  /\ werr[w] = Nil => procState[w] = Exited(0)

\* C18 as stated: for every way the subprocess can end, exit code 0 gives
\* nil, a nonzero code c a runError that reads "status c" and carries the
\* output, a signal a runError that reads "got signal <name>", and a failure
\* to start or to make the scratch directory a plain error without output.
OutcomeClassification ==
  \A w \in Live : wpc[w] = "send" => Classified(w, FALSE)

\* C18, amended: the same, except that a subprocess that exits with code 0
\* after the cancellation was raised may give the context's error instead
\* of nil.
OutcomeClassificationUnlessCancelled ==
  \A w \in Live : wpc[w] = "send" => Classified(w, TRUE)

\* a subprocess exited with code 0 and worker.run returned the context's
\* error, while the other worker holds a runError of a subprocess that a
\* signal ended
OutcomeClassificationWitness ==
  /\ \E w \in Live :
       /\ wpc[w] = "send"
       /\ procState[w] = Exited(0)
       /\ werr[w].kind = "error"
  /\ \E w \in Live :
       /\ wpc[w] = "send"
       /\ procState[w].signaled
       /\ werr[w].kind = "runError"

====
